---- MODULE Spec2Model ----
(***************************************************************************)
(* Model of the Answer Service of the Touch Bar coding assistant:          *)
(* app/azure_service.py (AzureOpenAIService) with the settings of          *)
(* app/config.py.  One request is followed step by step: get_llm           *)
(* (validation, environment clean-up, endpoint extraction), the retried    *)
(* client construction with its connectivity test call, the chat           *)
(* completion (invoke, raw-client fallback) and the truncation done by     *)
(* get_coding_answer.  Every outbound call is an interaction with the      *)
(* environment, which answers or raises (a timeout is raised as an         *)
(* exception).  The start-up sequence of main.py and main_cli.py           *)
(* (environment check, connectivity test, front-end) runs on top of the    *)
(* service; without it the service is called directly.                     *)
(***************************************************************************)
EXTENDS Integers, Sequences, FiniteSets, TLC

VARIABLES
    TENACITY_AVAILABLE,  \* module import of tenacity succeeded
    LANGCHAIN_AVAILABLE, \* module import of langchain_openai succeeded
    settings,            \* app.config.settings (read once at start-up)
    os_environ,          \* the process environment (OPENAI_API_KEY only)
    pc,                  \* position of the request in progress
    caller,              \* who called get_llm: "get_llm" (direct) or "get_coding_answer"
    question,            \* argument of get_coding_answer
    requests,            \* number of requests started in this process
    endpoint,            \* get_llm's local variable endpoint
    attempt_number,      \* tenacity's retry_state.attempt_number
    attempts,            \* outcome of each run of _create_azure_llm_with_retry's body
    delays,              \* the sleeps made between attempts, in seconds
    calls,               \* outbound calls and constructor calls of this request
    llm,                 \* outcome of get_llm
    completion,          \* outcome of generate_completion's try block
    response,            \* outcome of generate_completion
    result,              \* outcome of get_coding_answer
    azure_endpoint,      \* the azure_endpoint argument last given to a client constructor
    sent,                \* the chat-completion requests that carried the question
    prev_llm,            \* outcome of get_llm in the previous request of this process
    environ_before,      \* the process environment when the request started
    program,             \* the script that was started: "main.py", "main_cli.py" or none
    main_pc,             \* position of main()
    args,                \* the parsed command line of main()
    frontend,            \* the front-end main() started
    exit_status,         \* the status main() gave to sys.exit
    startup_llm,         \* outcome of the get_llm call test_azure_connection() made
    ui,                  \* the window object: is_searching and what its widgets show
    threads,             \* the background search threads, in the order they were started
    after_queue,         \* the _update_answer calls scheduled with after(0, ...) and not yet run
    warnings,            \* number of "Please enter a question" warnings shown
    asked,               \* the questions the front-end has passed to get_coding_answer
    event                \* the handler or step that ran last

\* The state of main().
main_vars == <<program, main_pc, args, frontend, exit_status, startup_llm>>

\* The state of the front-end that is running.
ui_vars == <<ui, threads, after_queue, warnings, asked, event>>

\* What is remembered from before the request in progress.
history_vars == <<prev_llm, environ_before>>

vars == <<TENACITY_AVAILABLE, LANGCHAIN_AVAILABLE, settings, os_environ, pc, caller,
          question, requests, endpoint, attempt_number, attempts, delays, calls,
          llm, completion, response, result, azure_endpoint, sent, history_vars,
          main_vars, ui_vars>>

----------------------------------------------------------------------------
(* Bounds of the model *)

MaxRequests == 2
MaxSmallLen == 2
MaxExtra == 3
NumPatterns == 2
MaxAttempts == 4

----------------------------------------------------------------------------
(* Program constants *)

MAX_ANSWER_LENGTH == 200
STOP_AFTER_ATTEMPT == 3
WAIT_MULTIPLIER == 1
WAIT_MIN == 4
WAIT_MAX == 10
CLIENT_TEMPERATURE == 7

UNABLE_TO_GENERATE ==
    <<"U","n","a","b","l","e"," ","t","o"," ","g","e","n","e","r","a","t","e"," ",
      "a","n","s","w","e","r","."," ","P","l","e","a","s","e"," ","t","r","y"," ",
      "a","g","a","i","n",".">>

UNABLE_TO_CONNECT ==
    <<"E","r","r","o","r",":"," ","U","n","a","b","l","e"," ","t","o"," ",
      "c","o","n","n","e","c","t"," ","t","o"," ","A","I"," ","s","e","r","v","i","c","e",".">>

ELLIPSIS == <<".", ".", ".">>

----------------------------------------------------------------------------
(* Python values and outcomes of calls *)

PyNone == [type |-> "NoneType"]
PyStr(s) == [type |-> "str", s |-> s]
PyInt(n) == [type |-> "int", n |-> n]
\* A float, kept in tenths: PyFloat(7) is 0.7.
PyFloat(t) == [type |-> "float", tenths |-> t]

\* The AzureChatOpenAI model get_llm returns: built with temperature=0.7 and
\* without max_tokens.
Client == [type |-> "AzureChatOpenAI", has_invoke |-> TRUE,
           temperature |-> PyFloat(CLIENT_TEMPERATURE), max_tokens |-> PyNone]

Return(v) == [kind |-> "return", value |-> v]
Raise(e) == [kind |-> "raise", exc |-> e]
NoOutcome == [kind |-> "none"]
\* sys.exit(n)
Exit(n) == [kind |-> "exit", status |-> n]

\* An exception: its class and the message prefix the code gives it.
Exc(t, m) == [type |-> t, msg |-> m]

\* Python truthiness of a value: None and "" are falsy.
Truthy(v) ==
    CASE v.type = "NoneType" -> FALSE
      [] v.type = "str" -> Len(v.s) > 0
      [] OTHER -> TRUE

Min(a, b) == IF a < b THEN a ELSE b
Max(a, b) == IF a > b THEN a ELSE b

\* Python's s[:k], k possibly negative.
SlicePrefix(s, k) ==
    IF k >= 0 THEN SubSeq(s, 1, Min(k, Len(s)))
    ELSE SubSeq(s, 1, Max(Len(s) + k, 0))

----------------------------------------------------------------------------
(* Inputs *)

Alphabet == <<"A", "b", ".">>

\* A text of n characters; the pattern p varies its content.
Text(n, p) == [i \in 1..n |-> Alphabet[((i * p) % Len(Alphabet)) + 1]]

TextLens == (0..MaxSmallLen) \cup ((MAX_ANSWER_LENGTH - MaxExtra)..(MAX_ANSWER_LENGTH + MaxExtra))

\* The reply of the empty-question scenario.
NotApplicable == <<"N", "/", "A">>

Texts == {Text(n, p) : n \in TextLens, p \in 1..NumPatterns} \cup {NotApplicable}

\* Questions for the service.  ("q" alone is a quit command of the interactive
\* front-end and never reaches the service from there.)
Questions == {<<>>, <<"x">>}

\* Exceptions an outbound call or a client constructor raises.
\* A call that gets no answer within its timeout raises APITimeoutError.
TransportErrors == {Exc("APITimeoutError", "Request timed out."), Exc("ValueError", "transport")}

\* An endpoint URL: scheme and host, then the rest.
Url(h, p) == [host |-> h, path |-> p]
EmptyUrl == Url("", "")
AzureHosts == {"https://test.openai.azure.com", "https://test.cognitive.azure.com"}
Endpoints ==
    {EmptyUrl,
     Url("https://test.openai.azure.com", "/"),
     Url("https://test.openai.azure.com", "/deployments/test"),
     Url("https://proxy.example.com", "/deployments/test"),
     Url("https://proxy.example.com", "/openai/")}

UNSET == "<unset>"

\* MAX_TOKENS and TEMPERATURE (in tenths): the defaults, or values set in the
\* environment.
GenerationSettings ==
    {[MAX_TOKENS |-> 1000, TEMPERATURE |-> 7], [MAX_TOKENS |-> 500, TEMPERATURE |-> 2]}

SettingsSpace ==
    {[AZURE_OPENAI_API_KEY |-> k,
      AZURE_OPENAI_ENDPOINT |-> e,
      AZURE_OPENAI_DEPLOYMENT_NAME |-> d,
      AZURE_OPENAI_API_VERSION |-> v,
      MAX_TOKENS |-> g.MAX_TOKENS,
      TEMPERATURE |-> g.TEMPERATURE] :
        k \in {"", "test_key"}, e \in Endpoints, d \in {"", "test_deployment"},
        v \in {"", "2024-02-15-preview"}, g \in GenerationSettings}

NoCalls == [client |-> 0, test |-> 0, chat_model |-> 0, invoke |-> 0,
            raw_client |-> 0, raw_create |-> 0]

Bump(c, f) == [c EXCEPT ![f] = @ + 1]

----------------------------------------------------------------------------
(* get_llm *)

\* Mutant of MissingVars: the API version is not among the checked settings.
MissingVars_SkipsApiVersion(s) ==
    {k \in {"AZURE_OPENAI_API_KEY", "AZURE_OPENAI_DEPLOYMENT_NAME"} : s[k] = ""}
    \cup (IF s.AZURE_OPENAI_ENDPOINT = EmptyUrl THEN {"AZURE_OPENAI_ENDPOINT"} ELSE {})

\* missing_vars: the required settings that are empty.
MissingVars(s) ==
    {k \in {"AZURE_OPENAI_API_KEY", "AZURE_OPENAI_DEPLOYMENT_NAME", "AZURE_OPENAI_API_VERSION"} :
        s[k] = ""}
    \cup (IF s.AZURE_OPENAI_ENDPOINT = EmptyUrl THEN {"AZURE_OPENAI_ENDPOINT"} ELSE {})

\* Mutant of CleanEnviron: OPENAI_API_KEY is removed whatever it holds.
CleanEnviron_RemovesAnyKey(env, s) == [env EXCEPT !.OPENAI_API_KEY = UNSET]

\* The environment after removing an OPENAI_API_KEY that holds the Azure key.
CleanEnviron(env, s) ==
    IF env.OPENAI_API_KEY # UNSET /\ env.OPENAI_API_KEY = s.AZURE_OPENAI_API_KEY
    THEN [env EXCEPT !.OPENAI_API_KEY = UNSET]
    ELSE env

\* endpoint.split("/deployments/")[0] and endpoint.rstrip("/") on the paths of the model.
BeforeDeployments(p) == IF p = "/deployments/test" THEN "" ELSE p
HasDeployments(p) == p = "/deployments/test"
EndsWithSlash(p) == p \in {"/", "/openai/"}
RStripSlash(p) == CASE p = "/" -> "" [] p = "/openai/" -> "/openai" [] OTHER -> p

\* The base endpoint get_llm extracts.
ExtractEndpoint(e) ==
    IF e.host \in AzureHosts THEN Url(e.host, "")
    ELSE IF HasDeployments(e.path) THEN Url(e.host, BeforeDeployments(e.path))
    ELSE IF EndsWithSlash(e.path) THEN Url(e.host, RStripSlash(e.path))
    ELSE e

\* isinstance(e, ValueError)
IsValueError(e) == e.type = "ValueError"

\* Mutant of LlmCreationHandler: the inner try lets the exception through.
LlmCreationHandler_Reraises(e) == e

\* The inner try of get_llm: RetryError and every other exception become RuntimeError.
LlmCreationHandler(e) ==
    IF e.type = "RetryError"
    THEN Exc("RuntimeError", "Failed to create Azure OpenAI client after retries")
    ELSE Exc("RuntimeError", "Failed during Azure LLM creation or verification")

\* Mutant of LlmOuterHandler: there is no separate handler for ValueError.
LlmOuterHandler_WrapsAll(e) ==
    Exc("RuntimeError", "Unexpected error initializing AzureChatOpenAI")

\* The outer try of get_llm: ValueError is re-raised, anything else becomes RuntimeError.
LlmOuterHandler(e) ==
    IF IsValueError(e) THEN e
    ELSE Exc("RuntimeError", "Unexpected error initializing AzureChatOpenAI")

\* What get_llm raises when client creation raised e.
GetLlmRaises(e) == Raise(LlmOuterHandler(LlmCreationHandler(e)))

\* The azure_endpoint argument of AzureOpenAI(...) and AzureChatOpenAI(...) in
\* _create_azure_llm_with_retry(endpoint): the setting as configured; the
\* parameter ep is not read.
AzureEndpointArgument(ep, s) == s.AZURE_OPENAI_ENDPOINT

\* What get_llm raises on a missing setting.
MissingConfigError == Exc("ValueError", "Missing required Azure OpenAI configuration values")

----------------------------------------------------------------------------
(* The retry policy of _create_azure_llm_with_retry *)

RECURSIVE Pow(_, _)
Pow(b, n) == IF n = 0 THEN 1 ELSE b * Pow(b, n - 1)

\* Mutant of StopAfterAttempt: one more attempt is made.
StopAfterAttempt_OneMore(n) == n >= STOP_AFTER_ATTEMPT + 1

\* Mutant of StopAfterAttempt: the retry never gives up.
StopAfterAttempt_Never(n) == FALSE

\* tenacity's stop_after_attempt(3)
StopAfterAttempt(n) == n >= STOP_AFTER_ATTEMPT

\* Mutant of WaitExponential: the minimum is not applied.
WaitExponential_NoFloor(n) == Min(WAIT_MULTIPLIER * Pow(2, n - 1), WAIT_MAX)

\* tenacity's wait_exponential(multiplier=1, min=4, max=10) after attempt n
WaitExponential(n) ==
    Max(Max(0, WAIT_MIN), Min(WAIT_MULTIPLIER * Pow(2, n - 1), WAIT_MAX))

----------------------------------------------------------------------------
(* get_coding_answer and generate_completion, as functions of what they got *)

\* Mutant of Truncate: the ellipsis is appended to a full-budget prefix.
Truncate_KeepsFullBudget(r) ==
    IF Len(r) > MAX_ANSWER_LENGTH
    THEN SlicePrefix(r, MAX_ANSWER_LENGTH) \o ELLIPSIS
    ELSE r

\* Mutant of Truncate: a text of exactly MAX_ANSWER_LENGTH characters is cut too.
Truncate_AtBudget(r) ==
    IF Len(r) >= MAX_ANSWER_LENGTH
    THEN SlicePrefix(r, MAX_ANSWER_LENGTH - 3) \o ELLIPSIS
    ELSE r

\* The truncation to the display budget: response[:MAX_ANSWER_LENGTH - 3] + "..."
Truncate(r) ==
    IF Len(r) > MAX_ANSWER_LENGTH
    THEN SlicePrefix(r, MAX_ANSWER_LENGTH - 3) \o ELLIPSIS
    ELSE r

\* Mutant of GenerateCompletionCatch: the exception's text is returned as the answer.
GenerateCompletionCatch_ReturnsMessage(o) ==
    IF o.kind = "raise" THEN Return(PyStr(<<"e", "r", "r", "o", "r">>)) ELSE o

\* Mutant of GenerateCompletionCatch: there is no catch-all.
GenerateCompletionCatch_Reraises(o) == o

\* generate_completion's catch-all: an exception becomes the return value None.
GenerateCompletionCatch(o) ==
    IF o.kind = "raise" THEN Return(PyNone) ELSE o

\* Mutant of GetCodingAnswerResult: the response is returned without the check
\* that it is truthy.
GetCodingAnswerResult_NoCheck(o) ==
    IF o.kind = "raise" THEN Return(PyStr(UNABLE_TO_CONNECT))
    ELSE IF o.value.type = "str" THEN Return(PyStr(Truncate(o.value.s)))
    ELSE Return(o.value)

\* get_coding_answer's try block, given the outcome o of generate_completion.
GetCodingAnswerResult(o) ==
    IF o.kind = "raise" THEN Return(PyStr(UNABLE_TO_CONNECT))
    ELSE IF Truthy(o.value) THEN Return(PyStr(Truncate(o.value.s)))
    ELSE Return(PyStr(UNABLE_TO_GENERATE))

\* The max_tokens and temperature get_coding_answer passes to generate_completion.
CompletionArgs(s) == [max_tokens |-> PyInt(s.MAX_TOKENS), temperature |-> PyFloat(s.TEMPERATURE)]

\* The request client.invoke(messages) sends: the parameters are those the model
\* was built with, not those generate_completion was given.
InvokeRequest(client) ==
    [via |-> "invoke", max_tokens |-> client.max_tokens, temperature |-> client.temperature]

\* The request chat.completions.create(..., max_tokens=max_tokens,
\* temperature=temperature) sends.
RawRequest(a) == [via |-> "raw", max_tokens |-> a.max_tokens, temperature |-> a.temperature]

----------------------------------------------------------------------------
(* main() of main.py and of main_cli.py *)

Programs == {"main.py", "main_cli.py"}

\* The command line before it is read.
NoArgs == [parsed |-> FALSE]

\* The front-end each program starts for each choice of its arguments.
FrontEnds(prog) ==
    IF prog = "main.py"
    THEN {"TouchBarSimulator", "TouchBarButton", "FixedTouchBarIntegration", "TouchBarUI"}
    ELSE {"show_info", "run_demo", "get_answer", "interactive_mode"}

\* The questions a front-end passes on: show_info asks none, and the command-line
\* front-ends pass no empty question.
FrontEndQuestions(f) ==
    CASE f = "show_info" -> {}
      [] f \in {"run_demo", "get_answer", "interactive_mode"} -> Questions \ {<<>>}
      [] OTHER -> Questions

\* check_environment(): the key, the endpoint and the deployment name are set.
\* The settings hold what os.getenv returns for them.
CheckEnvironment(s) ==
    /\ s.AZURE_OPENAI_API_KEY # ""
    /\ s.AZURE_OPENAI_ENDPOINT # EmptyUrl
    /\ s.AZURE_OPENAI_DEPLOYMENT_NAME # ""

\* Mutant of TestAzureConnection: the outcome of get_llm is not looked at.
TestAzureConnection_AlwaysTrue(o) == TRUE

\* test_azure_connection(): True when get_llm returned, False when it raised.
TestAzureConnection(o) == o.kind = "return"

\* No window object exists.
NoWindow == [created |-> FALSE]

----------------------------------------------------------------------------
(* The front-ends: TouchBarUI and TouchBarSearchWindow (Tk windows), the     *)
(* command-line front-ends of main_cli.py and the dialog of               *)
(* coding_assistant.py                                                     *)

MaxSearches == 2
MaxWarnings == 1

PROMPT_TEXT ==
    <<"A","s","k"," ","a"," ","c","o","d","i","n","g"," ","i","n","t","e",
      "r","v","i","e","w"," ","q","u","e","s","t","i","o","n",".",".",".">>

GENERATING_TEXT ==
    <<"G","e","n","e","r","a","t","i","n","g"," ","a","n","s","w","e","r",
      ".",".",".">>

ERROR_PREFIX == <<"E", "r", "r", "o", "r", ":", " ">>

UNABLE_TO_GET_ANSWER ==
    <<"E","r","r","o","r",":"," ","U","n","a","b","l","e"," ","t","o"," ",
      "g","e","t"," ","a","n","s","w","e","r"," ","-"," ">>

\* The first NUM_QUESTIONS sample questions of TouchBarCLI.
NUM_QUESTIONS == 3

SAMPLE_QUESTIONS ==
    <<
      <<"W", "h", "a", "t", " ", "i", "s", " ", "t", "h", "e", " ", "t",
        "i", "m", "e", " ", "c", "o", "m", "p", "l", "e", "x", "i", "t",
        "y", " ", "o", "f", " ", "b", "i", "n", "a", "r", "y", " ", "s",
        "e", "a", "r", "c", "h", "?">>,
      <<"H", "o", "w", " ", "t", "o", " ", "i", "m", "p", "l", "e", "m",
        "e", "n", "t", " ", "a", " ", "h", "a", "s", "h", " ", "t", "a",
        "b", "l", "e", "?">>,
      <<"E", "x", "p", "l", "a", "i", "n", " ", "d", "y", "n", "a", "m",
        "i", "c", " ", "p", "r", "o", "g", "r", "a", "m", "m", "i", "n",
        "g">>
    >>

CANCELLED == <<"C", "A", "N", "C", "E", "L", "L", "E", "D">>

\* What a user types, or gives as --question.
RawInputs == {<<>>, <<" ">>, <<"x">>, <<" ", "x", " ">>, <<"Q">>}

\* str.strip()
IsSpace(c) == c \in {" ", "\t", "\n"}

RECURSIVE LStrip(_)
LStrip(t) == IF t # <<>> /\ IsSpace(Head(t)) THEN LStrip(Tail(t)) ELSE t

RECURSIVE RStrip(_)
RStrip(t) == IF t # <<>> /\ IsSpace(t[Len(t)]) THEN RStrip(SubSeq(t, 1, Len(t) - 1)) ELSE t

Strip(t) == RStrip(LStrip(t))

\* str.lower(), on the letters of RawInputs
Lower(t) == [i \in DOMAIN t |-> IF t[i] = "Q" THEN "q" ELSE t[i]]

\* The inputs that end interactive_mode.
QuitCommands == {<<"q", "u", "i", "t">>, <<"e", "x", "i", "t">>, <<"q">>}

\* What the dialog of show_search_window prints for the text in its field: the
\* text, or CANCELLED for an empty field, and a newline.
DialogOutput(raw) == (IF raw # <<>> THEN raw ELSE CANCELLED) \o <<"\n">>

\* The front-ends and the program each belongs to.
UIFrontEnds ==
    {"TouchBarUI", "TouchBarButton", "interactive_mode", "get_answer", "run_demo",
     "show_search_window"}

ProgramOf(f) ==
    CASE f \in {"TouchBarUI", "TouchBarButton"} -> "main.py"
      [] f \in {"interactive_mode", "get_answer", "run_demo"} -> "main_cli.py"
      [] OTHER -> "coding_assistant.py"

\* The window class a front-end shows, if it is a Tk front-end.
TkFrontEnds == {"TouchBarUI", "TouchBarButton"}
WindowClass(f) == IF f = "TouchBarUI" THEN "TouchBarUI" ELSE "TouchBarSearchWindow"

\* The window after create_ui (create_window): not searching, the button
\* enabled, status "Ready", the entry empty.
CreatedWindow(cls) ==
    [created |-> TRUE,
     class |-> cls,
     is_searching |-> FALSE,
     search_button |-> "normal",
     status_label |-> "Ready",
     answer_label |-> IF cls = "TouchBarUI" THEN PROMPT_TEXT ELSE <<>>,
     search_entry |-> <<>>]

\* What invokes _on_search: the Search button (only while it is enabled), Return
\* in the entry and, in TouchBarUI, Command-s.
Triggers(w) ==
    (IF w.search_button = "normal" THEN {"button"} ELSE {})
    \cup {"Return"}
    \cup (IF w.class = "TouchBarUI" THEN {"Command-s"} ELSE {})

\* Mutant of StartSearch: the search button is left enabled.
StartSearch_LeavesButton(w) ==
    [w EXCEPT !.is_searching = TRUE,
              !.status_label = "Searching...",
              !.answer_label = GENERATING_TEXT]

\* _start_search, on the window's fields.
StartSearch(w) ==
    [w EXCEPT !.is_searching = TRUE,
              !.search_button = "disabled",
              !.status_label = "Searching...",
              !.answer_label = GENERATING_TEXT]

\* Mutant of UpdateAnswer: is_searching is not reset.
UpdateAnswer_KeepsSearching(w, answer) ==
    [w EXCEPT !.answer_label = answer,
              !.status_label = "Ready",
              !.search_button = "normal"]

\* Mutant of UpdateAnswer: the search button stays disabled.
UpdateAnswer_LeavesDisabled(w, answer) ==
    [w EXCEPT !.answer_label = answer,
              !.status_label = "Ready",
              !.is_searching = FALSE]

\* _update_answer(answer)
UpdateAnswer(w, answer) ==
    [w EXCEPT !.answer_label = answer,
              !.status_label = "Ready",
              !.search_button = "normal",
              !.is_searching = FALSE]

\* Mutant of OnClear: the search button is enabled again.
OnClear_EnablesButton(w) ==
    [w EXCEPT !.search_entry = <<>>,
              !.answer_label = PROMPT_TEXT,
              !.status_label = "Ready",
              !.search_button = "normal"]

\* _on_clear
OnClear(w) ==
    [w EXCEPT !.search_entry = <<>>,
              !.answer_label = PROMPT_TEXT,
              !.status_label = "Ready"]

\* The answers get_coding_answer gives a front-end, and an exception raised
\* inside the search thread.
Answers == {NotApplicable, UNABLE_TO_GENERATE}
SearchErrors == {Exc("RuntimeError", <<"b", "o", "o", "m">>)}

\* What the call of get_coding_answer in _perform_search does.
GetCodingAnswerOutcomes ==
    {Return(PyStr(a)) : a \in Answers} \cup {Raise(e) : e \in SearchErrors}

\* _perform_search: the answer of get_coding_answer, or a message if it raised.
PerformSearch(o) ==
    IF o.kind = "raise" THEN Return(PyStr(UNABLE_TO_GET_ANSWER \o o.exc.msg)) ELSE o

\* The text _run_search passes to _update_answer: the answer, or "Error: " and
\* the exception's text.
ScheduledAnswer(o) ==
    IF o.kind = "raise" THEN ERROR_PREFIX \o o.exc.msg ELSE o.value.s

----------------------------------------------------------------------------
(* State machine *)

Init ==
    /\ TENACITY_AVAILABLE \in BOOLEAN
    /\ LANGCHAIN_AVAILABLE \in BOOLEAN
    /\ settings \in SettingsSpace
    /\ os_environ \in [OPENAI_API_KEY : {UNSET, "test_key", "sk-openai"}]
    /\ pc = "idle"
    /\ caller = "none"
    /\ question = <<>>
    /\ requests = 0
    /\ endpoint = EmptyUrl
    /\ attempt_number = 0
    /\ attempts = <<>>
    /\ delays = <<>>
    /\ calls = NoCalls
    /\ llm = NoOutcome
    /\ completion = NoOutcome
    /\ response = NoOutcome
    /\ result = NoOutcome
    /\ azure_endpoint = EmptyUrl
    /\ sent = <<>>
    /\ prev_llm = NoOutcome
    /\ environ_before = os_environ
    /\ program = "none"
    /\ main_pc = "none"
    /\ args = NoArgs
    /\ frontend = "none"
    /\ exit_status = NoOutcome
    /\ startup_llm = NoOutcome
    /\ ui = NoWindow
    /\ threads = <<>>
    /\ after_queue = <<>>
    /\ warnings = 0
    /\ asked = <<>>
    /\ event = "none"

\* Mutant of StartRequest: a client built by an earlier request is kept and
\* get_llm is not run again.
StartRequest_ReusesClient(who, q) ==
    /\ pc \in {"idle", "done"}
    /\ requests < MaxRequests
    /\ requests' = requests + 1
    /\ caller' = who
    /\ question' = q
    /\ pc' = IF llm.kind = "return" THEN "llm_done" ELSE "get_llm"
    /\ endpoint' = EmptyUrl
    /\ attempt_number' = 0
    /\ attempts' = <<>>
    /\ delays' = <<>>
    /\ calls' = NoCalls
    /\ llm' = IF llm.kind = "return" THEN llm ELSE NoOutcome
    /\ completion' = NoOutcome
    /\ response' = NoOutcome
    /\ result' = NoOutcome
    /\ azure_endpoint' = EmptyUrl
    /\ sent' = <<>>
    /\ prev_llm' = llm
    /\ environ_before' = os_environ
    /\ UNCHANGED <<ui_vars, main_vars, TENACITY_AVAILABLE, LANGCHAIN_AVAILABLE, settings, os_environ>>

\* What a new call starts from: the records of the previous request are dropped.
StartRequest(who, q) ==
    /\ pc \in {"idle", "done"}
    /\ requests < MaxRequests
    /\ requests' = requests + 1
    /\ caller' = who
    /\ question' = q
    /\ pc' = "get_llm"
    /\ endpoint' = EmptyUrl
    /\ attempt_number' = 0
    /\ attempts' = <<>>
    /\ delays' = <<>>
    /\ calls' = NoCalls
    /\ llm' = NoOutcome
    /\ completion' = NoOutcome
    /\ response' = NoOutcome
    /\ result' = NoOutcome
    /\ azure_endpoint' = EmptyUrl
    /\ sent' = <<>>
    /\ prev_llm' = llm
    /\ environ_before' = os_environ
    /\ UNCHANGED <<ui_vars, main_vars, TENACITY_AVAILABLE, LANGCHAIN_AVAILABLE, settings, os_environ>>

\* A front-end asks a question: get_coding_answer calls generate_completion,
\* which first calls get_llm.
CallGetCodingAnswer ==
    \E q \in Questions :
        /\ \/ main_pc = "none"
           \/ main_pc = "frontend" /\ q \in FrontEndQuestions(frontend)
        /\ StartRequest("get_coding_answer", q)

\* get_llm is called directly: by test_azure_connection() at start-up, or by
\* another user of the service.
CallGetLlm ==
    /\ \/ main_pc = "none"
       \/ main_pc = "test_connection" /\ pc = "idle"
    /\ StartRequest("get_llm", <<>>)

\* get_llm: a required setting is empty.
GetLlmMissingConfig ==
    /\ pc = "get_llm"
    /\ MissingVars(settings) # {}
    /\ llm' = Raise(LlmOuterHandler(MissingConfigError))
    /\ pc' = "llm_done"
    /\ UNCHANGED <<ui_vars, main_vars, history_vars, azure_endpoint, sent, TENACITY_AVAILABLE, LANGCHAIN_AVAILABLE, settings, os_environ, caller,
                   question, requests, endpoint, attempt_number, attempts, delays,
                   calls, completion, response, result>>

\* get_llm: the settings are complete; clean the environment, extract the base
\* endpoint and enter the retried client construction.
GetLlmPrepare ==
    /\ pc = "get_llm"
    /\ MissingVars(settings) = {}
    /\ os_environ' = CleanEnviron(os_environ, settings)
    /\ endpoint' = ExtractEndpoint(settings.AZURE_OPENAI_ENDPOINT)
    /\ attempt_number' = 1
    /\ pc' = "attempt"
    /\ UNCHANGED <<ui_vars, main_vars, history_vars, azure_endpoint, sent, TENACITY_AVAILABLE, LANGCHAIN_AVAILABLE, settings, caller, question,
                   requests, attempts, delays, calls, llm, completion, response, result>>

\* The retry wrapper after the body of _create_azure_llm_with_retry raised e:
\* tenacity retries until stop_after_attempt and then raises RetryError; the
\* fallback decorator returns the function unchanged, so e propagates.
AttemptRaised(e, tag, newcalls) ==
    /\ attempts' = Append(attempts, [outcome |-> tag, exc |-> e.type])
    /\ calls' = newcalls
    /\ azure_endpoint' = AzureEndpointArgument(endpoint, settings)
    /\ IF ~TENACITY_AVAILABLE
       THEN /\ llm' = GetLlmRaises(e)
            /\ pc' = "llm_done"
       ELSE IF StopAfterAttempt(attempt_number)
       THEN /\ llm' = GetLlmRaises(Exc("RetryError", "RetryError"))
            /\ pc' = "llm_done"
       ELSE /\ llm' = llm
            /\ pc' = "wait"
    /\ UNCHANGED <<ui_vars, main_vars, history_vars, sent, TENACITY_AVAILABLE, LANGCHAIN_AVAILABLE, settings, os_environ, caller,
                   question, requests, endpoint, attempt_number, delays, completion, response, result>>

\* One attempt: the AzureOpenAI constructor raises.
CreateClientRaises ==
    /\ pc = "attempt"
    /\ \E e \in TransportErrors : AttemptRaised(e, "client_error", Bump(calls, "client"))

\* One attempt: the connectivity test call raises.
TestCallRaises ==
    /\ pc = "attempt"
    /\ \E e \in TransportErrors :
          AttemptRaised(e, "test_error", Bump(Bump(calls, "client"), "test"))

\* One attempt: the connectivity test call answers, and AzureChatOpenAI(...) is
\* built.  The stand-in class defined when langchain_openai is missing takes no
\* arguments, so building it raises TypeError.
TestCallSucceeds ==
    /\ pc = "attempt"
    /\ LET c == Bump(Bump(Bump(calls, "client"), "test"), "chat_model") IN
       IF LANGCHAIN_AVAILABLE
       THEN /\ attempts' = Append(attempts, [outcome |-> "ok", exc |-> "none"])
            /\ calls' = c
            /\ llm' = Return(Client)
            /\ azure_endpoint' = AzureEndpointArgument(endpoint, settings)
            /\ pc' = "llm_done"
            /\ UNCHANGED <<ui_vars, main_vars, history_vars, sent, TENACITY_AVAILABLE, LANGCHAIN_AVAILABLE, settings, os_environ,
                           caller, question, requests, endpoint, attempt_number, delays,
                           completion, response, result>>
       ELSE AttemptRaised(Exc("TypeError", "AzureChatOpenAI() takes no arguments"),
                          "chat_model_error", c)

\* tenacity sleeps wait_exponential(...) seconds and starts the next attempt.
RetryWait ==
    /\ pc = "wait"
    /\ attempt_number < MaxAttempts
    /\ delays' = Append(delays, WaitExponential(attempt_number))
    /\ attempt_number' = attempt_number + 1
    /\ pc' = "attempt"
    /\ UNCHANGED <<ui_vars, main_vars, history_vars, azure_endpoint, sent, TENACITY_AVAILABLE, LANGCHAIN_AVAILABLE, settings, os_environ, caller,
                   question, requests, endpoint, attempts, calls, llm, completion, response, result>>

\* generate_completion ends: its try block gave o, and its catch-all turns an
\* exception into the return value None.
Completed(o) ==
    /\ completion' = o
    /\ response' = GenerateCompletionCatch(o)

\* get_llm returns or raises to a direct caller.
GetLlmDone ==
    /\ pc = "llm_done"
    /\ caller = "get_llm"
    /\ pc' = "done"
    /\ UNCHANGED <<ui_vars, main_vars, history_vars, azure_endpoint, sent, TENACITY_AVAILABLE, LANGCHAIN_AVAILABLE, settings, os_environ, caller,
                   question, requests, endpoint, attempt_number, attempts, delays,
                   calls, llm, completion, response, result>>

\* Mutant of GenerateCompletionGotLlm: an empty question is answered with None
\* without a request being sent.
GenerateCompletionGotLlm_RejectsEmpty ==
    /\ pc = "llm_done"
    /\ caller = "get_coding_answer"
    /\ IF llm.kind = "raise"
       THEN /\ Completed(llm)
            /\ pc' = "answer"
       ELSE IF ~Truthy(llm.value) \/ question = <<>>
       THEN /\ Completed(Return(PyNone))
            /\ pc' = "answer"
       ELSE /\ UNCHANGED <<completion, response>>
            /\ pc' = IF llm.value.has_invoke THEN "invoke" ELSE "raw"
    /\ UNCHANGED <<ui_vars, main_vars, history_vars, azure_endpoint, sent, TENACITY_AVAILABLE,
                   LANGCHAIN_AVAILABLE, settings, os_environ, caller, question, requests,
                   endpoint, attempt_number, attempts, delays, calls, llm, result>>

\* generate_completion after get_llm: an exception or a falsy client ends it with
\* None; otherwise the client is used through invoke, or as a raw client when it
\* has no invoke method.
GenerateCompletionGotLlm ==
    /\ pc = "llm_done"
    /\ caller = "get_coding_answer"
    /\ IF llm.kind = "raise"
       THEN /\ Completed(llm)
            /\ pc' = "answer"
       ELSE IF ~Truthy(llm.value)
       THEN /\ Completed(Return(PyNone))
            /\ pc' = "answer"
       ELSE /\ UNCHANGED <<completion, response>>
            /\ pc' = IF llm.value.has_invoke THEN "invoke" ELSE "raw"
    /\ UNCHANGED <<ui_vars, main_vars, history_vars, azure_endpoint, sent, TENACITY_AVAILABLE, LANGCHAIN_AVAILABLE, settings, os_environ, caller,
                   question, requests, endpoint, attempt_number, attempts, delays,
                   calls, llm, result>>

\* client.invoke(messages) returns; response.content is the text.
InvokeReturns ==
    /\ pc = "invoke"
    /\ \E t \in Texts : Completed(Return(PyStr(t)))
    /\ calls' = Bump(calls, "invoke")
    /\ sent' = Append(sent, InvokeRequest(llm.value))
    /\ pc' = "answer"
    /\ UNCHANGED <<ui_vars, main_vars, history_vars, azure_endpoint, TENACITY_AVAILABLE, LANGCHAIN_AVAILABLE, settings, os_environ, caller,
                   question, requests, endpoint, attempt_number, attempts, delays,
                   llm, result>>

\* client.invoke(messages) raises: fall back to a raw client.
InvokeRaises ==
    /\ pc = "invoke"
    /\ calls' = Bump(calls, "invoke")
    /\ sent' = Append(sent, InvokeRequest(llm.value))
    /\ pc' = "fallback"
    /\ UNCHANGED <<ui_vars, main_vars, history_vars, azure_endpoint, TENACITY_AVAILABLE, LANGCHAIN_AVAILABLE, settings, os_environ, caller,
                   question, requests, endpoint, attempt_number, attempts, delays,
                   llm, completion, response, result>>

\* Mutant of RawCalls: the raw request is sent twice.
RawCalls_SendsTwice ==
    Bump(Bump(IF pc = "fallback" THEN Bump(calls, "raw_client") ELSE calls, "raw_create"),
         "raw_create")

\* The calls made so far once the raw request is sent: the fallback builds its
\* own AzureOpenAI client first.
RawCalls == Bump(IF pc = "fallback" THEN Bump(calls, "raw_client") ELSE calls, "raw_create")

\* The azure_endpoint of the client the raw request goes through: the fallback
\* builds its client from the setting.
RawEndpoint == IF pc = "fallback" THEN settings.AZURE_OPENAI_ENDPOINT ELSE azure_endpoint

\* The fallback's AzureOpenAI constructor raises.
FallbackClientRaises ==
    /\ pc = "fallback"
    /\ \E e \in TransportErrors : Completed(Raise(e))
    /\ calls' = Bump(calls, "raw_client")
    /\ azure_endpoint' = settings.AZURE_OPENAI_ENDPOINT
    /\ pc' = "answer"
    /\ UNCHANGED <<ui_vars, main_vars, history_vars, sent, TENACITY_AVAILABLE, LANGCHAIN_AVAILABLE, settings, os_environ, caller,
                   question, requests, endpoint, attempt_number, attempts, delays,
                   llm, result>>

\* The raw chat-completion request answers; message.content is a text or None.
RawCreateReturns ==
    /\ pc \in {"fallback", "raw"}
    /\ \E v \in {PyStr(t) : t \in Texts} \cup {PyNone} : Completed(Return(v))
    /\ calls' = RawCalls
    /\ azure_endpoint' = RawEndpoint
    /\ sent' = Append(sent, RawRequest(CompletionArgs(settings)))
    /\ pc' = "answer"
    /\ UNCHANGED <<ui_vars, main_vars, history_vars, TENACITY_AVAILABLE, LANGCHAIN_AVAILABLE, settings, os_environ, caller,
                   question, requests, endpoint, attempt_number, attempts, delays,
                   llm, result>>

\* The raw chat-completion request raises.
RawCreateRaises ==
    /\ pc \in {"fallback", "raw"}
    /\ \E e \in TransportErrors : Completed(Raise(e))
    /\ calls' = RawCalls
    /\ azure_endpoint' = RawEndpoint
    /\ sent' = Append(sent, RawRequest(CompletionArgs(settings)))
    /\ pc' = "answer"
    /\ UNCHANGED <<ui_vars, main_vars, history_vars, TENACITY_AVAILABLE, LANGCHAIN_AVAILABLE, settings, os_environ, caller,
                   question, requests, endpoint, attempt_number, attempts, delays,
                   llm, result>>

\* get_coding_answer returns.
GetCodingAnswerReturns ==
    /\ pc = "answer"
    /\ result' = GetCodingAnswerResult(response)
    /\ pc' = "done"
    /\ UNCHANGED <<ui_vars, main_vars, history_vars, azure_endpoint, sent, TENACITY_AVAILABLE, LANGCHAIN_AVAILABLE, settings, os_environ, caller,
                   question, requests, endpoint, attempt_number, attempts, delays,
                   calls, llm, completion, response>>

service_vars == <<TENACITY_AVAILABLE, LANGCHAIN_AVAILABLE, settings, os_environ, pc, caller,
                  question, requests, endpoint, attempt_number, attempts, delays, calls,
                  llm, completion, response, result, azure_endpoint, sent, history_vars>>

\* main() starts in a process that has not used the service yet.
MainStart ==
    /\ main_pc = "none"
    /\ pc = "idle"
    /\ \E prog \in Programs : program' = prog
    /\ main_pc' = "check_environment"
    /\ UNCHANGED <<args, frontend, exit_status, startup_llm, service_vars, ui_vars>>

\* if not check_environment(): sys.exit(1)
MainCheckEnvironment ==
    /\ main_pc = "check_environment"
    /\ IF CheckEnvironment(settings)
       THEN /\ main_pc' = "test_connection"
            /\ UNCHANGED exit_status
       ELSE /\ main_pc' = "exited"
            /\ exit_status' = Exit(1)
    /\ UNCHANGED <<program, args, frontend, startup_llm, service_vars, ui_vars>>

\* test_azure_connection() has returned.  With --test the process exits, with 0
\* or 1; otherwise a failed test exits with 1 and a passed one starts the
\* front-end the arguments select.
MainConnectionTested ==
    /\ main_pc = "test_connection"
    /\ pc = "done"
    /\ startup_llm' = llm
    /\ \E t \in BOOLEAN, f \in FrontEnds(program) :
          /\ args' = [parsed |-> TRUE, test |-> t, frontend |-> f]
          /\ IF t
             THEN /\ main_pc' = "exited"
                  /\ exit_status' = IF TestAzureConnection(llm) THEN Exit(0) ELSE Exit(1)
                  /\ UNCHANGED frontend
             ELSE IF ~TestAzureConnection(llm)
             THEN /\ main_pc' = "exited"
                  /\ exit_status' = Exit(1)
                  /\ UNCHANGED frontend
             ELSE /\ main_pc' = "frontend"
                  /\ frontend' = f
                  /\ UNCHANGED exit_status
    /\ UNCHANGED <<program, service_vars, ui_vars>>

\* The front-end ends between two questions: it returns or is interrupted
\* (main returns, status 0), or it raises (sys.exit(1)).
FrontEndEnds ==
    /\ main_pc = "frontend"
    /\ pc \in {"idle", "done"}
    /\ main_pc' = "exited"
    /\ \E n \in {0, 1} : exit_status' = Exit(n)
    /\ UNCHANGED <<program, args, frontend, startup_llm, service_vars, ui_vars>>

Next ==
    \/ CallGetCodingAnswer
    \/ CallGetLlm
    \/ GetLlmMissingConfig
    \/ GetLlmPrepare
    \/ CreateClientRaises
    \/ TestCallRaises
    \/ TestCallSucceeds
    \/ RetryWait
    \/ GetLlmDone
    \/ GenerateCompletionGotLlm
    \/ InvokeReturns
    \/ InvokeRaises
    \/ FallbackClientRaises
    \/ RawCreateReturns
    \/ RawCreateRaises
    \/ GetCodingAnswerReturns
    \/ MainStart
    \/ MainCheckEnvironment
    \/ MainConnectionTested
    \/ FrontEndEnds

Spec == Init /\ [][Next]_vars

\* The steps a call takes by itself once it was made: the code runs on, and
\* every outbound call answers, raises or times out (each is made with
\* timeout=request_timeout).
RequestStep ==
    \/ GetLlmMissingConfig
    \/ GetLlmPrepare
    \/ CreateClientRaises
    \/ TestCallRaises
    \/ TestCallSucceeds
    \/ RetryWait
    \/ GetLlmDone
    \/ GenerateCompletionGotLlm
    \/ InvokeReturns
    \/ InvokeRaises
    \/ FallbackClientRaises
    \/ RawCreateReturns
    \/ RawCreateRaises
    \/ GetCodingAnswerReturns

\* A call that was made keeps running; nothing obliges a caller to make one.
FairSpec == Spec /\ WF_vars(RequestStep)

----------------------------------------------------------------------------
(* State machine of the front-ends *)

\* The process when a front-end begins: main() of main.py or main_cli.py has
\* passed its start-up checks with a valid configuration; coding_assistant.py
\* makes no start-up check.
UIInit ==
    /\ TENACITY_AVAILABLE = TRUE
    /\ LANGCHAIN_AVAILABLE = TRUE
    /\ settings = [AZURE_OPENAI_API_KEY |-> "test_key",
                   AZURE_OPENAI_ENDPOINT |-> Url("https://test.openai.azure.com", "/"),
                   AZURE_OPENAI_DEPLOYMENT_NAME |-> "test_deployment",
                   AZURE_OPENAI_API_VERSION |-> "2024-02-15-preview",
                   MAX_TOKENS |-> 1000,
                   TEMPERATURE |-> 7]
    /\ os_environ = [OPENAI_API_KEY |-> UNSET]
    /\ frontend \in UIFrontEnds
    /\ program = ProgramOf(frontend)
    /\ main_pc = "frontend"
    /\ exit_status = NoOutcome
    /\ IF program \in Programs
       THEN /\ args = [parsed |-> TRUE, test |-> FALSE, frontend |-> frontend]
            /\ pc = "done"
            /\ caller = "get_llm"
            /\ requests = 1
            /\ endpoint = ExtractEndpoint(settings.AZURE_OPENAI_ENDPOINT)
            /\ attempt_number = 1
            /\ attempts = <<[outcome |-> "ok", exc |-> "none"]>>
            /\ calls = [NoCalls EXCEPT !.client = 1, !.test = 1, !.chat_model = 1]
            /\ llm = Return(Client)
            /\ azure_endpoint = settings.AZURE_OPENAI_ENDPOINT
            /\ startup_llm = Return(Client)
       ELSE /\ args = NoArgs
            /\ pc = "idle"
            /\ caller = "none"
            /\ requests = 0
            /\ endpoint = EmptyUrl
            /\ attempt_number = 0
            /\ attempts = <<>>
            /\ calls = NoCalls
            /\ llm = NoOutcome
            /\ azure_endpoint = EmptyUrl
            /\ startup_llm = NoOutcome
    /\ question = <<>>
    /\ delays = <<>>
    /\ completion = NoOutcome
    /\ response = NoOutcome
    /\ result = NoOutcome
    /\ sent = <<>>
    /\ prev_llm = NoOutcome
    /\ environ_before = os_environ
    /\ ui = NoWindow
    /\ threads = <<>>
    /\ after_queue = <<>>
    /\ warnings = 0
    /\ asked = <<>>
    /\ event = "none"

\* create_ui of TouchBarUI, create_window of TouchBarSearchWindow.
CreateUi ==
    /\ frontend \in TkFrontEnds
    /\ ~ui.created
    /\ ui' = CreatedWindow(WindowClass(frontend))
    /\ event' = "create_ui"
    /\ UNCHANGED <<threads, after_queue, warnings, asked, service_vars, main_vars>>

\* The user edits the entry.
TypeQuestion(raw) ==
    /\ ui.created
    /\ raw # ui.search_entry
    /\ ui' = [ui EXCEPT !.search_entry = raw]
    /\ event' = "type"
    /\ UNCHANGED <<threads, after_queue, warnings, asked, service_vars, main_vars>>

\* Mutant of OnSearch: a search is started although one is in flight.
OnSearch_IgnoresFlag(trigger) ==
    /\ ui.created
    /\ trigger \in Triggers(ui)
    /\ event' = "_on_search"
    /\ LET stripped == Strip(ui.search_entry) IN
         IF stripped = <<>>
         THEN /\ warnings < MaxWarnings
              /\ warnings' = warnings + 1
              /\ UNCHANGED <<ui, threads>>
         ELSE /\ Len(threads) < MaxSearches
              /\ ui' = StartSearch(ui)
              /\ threads' = Append(threads, [question |-> stripped, stage |-> "running"])
              /\ UNCHANGED warnings
    /\ UNCHANGED <<after_queue, asked, service_vars, main_vars>>

\* Mutant of OnSearch: the entry's text is not stripped.
OnSearch_NoStrip(trigger) ==
    /\ ui.created
    /\ trigger \in Triggers(ui)
    /\ event' = "_on_search"
    /\ IF ui.is_searching
       THEN UNCHANGED <<ui, threads, warnings>>
       ELSE IF ui.search_entry = <<>>
            THEN /\ warnings < MaxWarnings
                 /\ warnings' = warnings + 1
                 /\ UNCHANGED <<ui, threads>>
            ELSE /\ Len(threads) < MaxSearches
                 /\ ui' = StartSearch(ui)
                 /\ threads' = Append(threads, [question |-> ui.search_entry,
                                                stage |-> "running"])
                 /\ UNCHANGED warnings
    /\ UNCHANGED <<after_queue, asked, service_vars, main_vars>>

\* _on_search, invoked by the button, by Return or by Command-s: nothing while a
\* search is in flight; a warning for a question that is empty after strip();
\* otherwise _start_search(question), which also starts the search thread.
OnSearch(trigger) ==
    /\ ui.created
    /\ trigger \in Triggers(ui)
    /\ event' = "_on_search"
    /\ IF ui.is_searching
       THEN UNCHANGED <<ui, threads, warnings>>
       ELSE LET stripped == Strip(ui.search_entry) IN
              IF stripped = <<>>
              THEN /\ warnings < MaxWarnings
                   /\ warnings' = warnings + 1
                   /\ UNCHANGED <<ui, threads>>
              ELSE /\ Len(threads) < MaxSearches
                   /\ ui' = StartSearch(ui)
                   /\ threads' = Append(threads, [question |-> stripped, stage |-> "running"])
                   /\ UNCHANGED warnings
    /\ UNCHANGED <<after_queue, asked, service_vars, main_vars>>

\* The Clear button or Command-c of TouchBarUI.
OnClearEvent ==
    /\ ui.created
    /\ ui.class = "TouchBarUI"
    /\ ui' = OnClear(ui)
    /\ event' = "_on_clear"
    /\ UNCHANGED <<threads, after_queue, warnings, asked, service_vars, main_vars>>

\* Mutant of RunSearch: an exception in the thread schedules no update.
RunSearch_DropsError(i) ==
    /\ i \in DOMAIN threads
    /\ threads[i].stage = "running"
    /\ \/ \E e \in SearchErrors :
            UNCHANGED <<after_queue, asked>>
       \/ \E o \in GetCodingAnswerOutcomes :
            /\ asked' = Append(asked, [by |-> frontend, question |-> threads[i].question])
            /\ after_queue' = Append(after_queue, ScheduledAnswer(PerformSearch(o)))
    /\ threads' = [threads EXCEPT ![i].stage = "closing"]
    /\ event' = "_run_search"
    /\ UNCHANGED <<ui, warnings, service_vars, main_vars>>

\* The try block of _run_search in thread i: either the event loop raises before
\* the callback is reached, or the callback _perform_search runs; in both cases
\* one call of _update_answer is scheduled on the main loop.
RunSearch(i) ==
    /\ i \in DOMAIN threads
    /\ threads[i].stage = "running"
    /\ \/ \E e \in SearchErrors :
            /\ after_queue' = Append(after_queue, ScheduledAnswer(Raise(e)))
            /\ UNCHANGED asked
       \/ \E o \in GetCodingAnswerOutcomes :
            /\ asked' = Append(asked, [by |-> frontend, question |-> threads[i].question])
            /\ after_queue' = Append(after_queue, ScheduledAnswer(PerformSearch(o)))
    /\ threads' = [threads EXCEPT ![i].stage = "closing"]
    /\ event' = "_run_search"
    /\ UNCHANGED <<ui, warnings, service_vars, main_vars>>

\* The finally block of _run_search, after which thread i ends.
RunSearchEnds(i) ==
    /\ i \in DOMAIN threads
    /\ threads[i].stage = "closing"
    /\ threads' = [threads EXCEPT ![i].stage = "ended"]
    /\ event' = "loop.close"
    /\ UNCHANGED <<ui, after_queue, warnings, asked, service_vars, main_vars>>

\* The main loop runs the oldest scheduled _update_answer.
MainLoopUpdate ==
    /\ ui.created
    /\ after_queue # <<>>
    /\ ui' = UpdateAnswer(ui, Head(after_queue))
    /\ after_queue' = Tail(after_queue)
    /\ event' = "_update_answer"
    /\ UNCHANGED <<threads, warnings, asked, service_vars, main_vars>>

\* One round of interactive_mode: the input is stripped; a quit command ends the
\* loop, an empty question is refused, any other question is asked.  (The
\* commands "sample" and "demo" are not among RawInputs.)
InteractiveInput(raw) ==
    /\ frontend = "interactive_mode"
    /\ event # "quit"
    /\ LET stripped == Strip(raw) IN
         IF Lower(stripped) \in QuitCommands
         THEN /\ event' = "quit"
              /\ UNCHANGED <<warnings, asked>>
         ELSE IF stripped = <<>>
              THEN /\ warnings < MaxWarnings
                   /\ warnings' = warnings + 1
                   /\ event' = "input"
                   /\ UNCHANGED asked
              ELSE /\ Len(asked) < MaxSearches
                   /\ asked' = Append(asked, [by |-> frontend, question |-> stripped])
                   /\ event' = "input"
                   /\ UNCHANGED warnings
    /\ UNCHANGED <<ui, threads, after_queue, service_vars, main_vars>>

\* main() of main_cli.py with --question raw: a non-empty argument is passed to
\* get_answer as it was given.
QuestionArgument(raw) ==
    /\ frontend = "get_answer"
    /\ event = "none"
    /\ raw # <<>>
    /\ asked' = Append(asked, [by |-> frontend, question |-> raw])
    /\ event' = "get_answer"
    /\ UNCHANGED <<ui, threads, after_queue, warnings, service_vars, main_vars>>

\* run_demo asks the sample questions in turn.
RunDemo ==
    /\ frontend = "run_demo"
    /\ Len(asked) < NUM_QUESTIONS
    /\ asked' = Append(asked, [by |-> frontend, question |-> SAMPLE_QUESTIONS[Len(asked) + 1]])
    /\ event' = "run_demo"
    /\ UNCHANGED <<ui, threads, after_queue, warnings, service_vars, main_vars>>

\* show_search_window of coding_assistant.py: the dialog's output is stripped,
\* and a question that is neither empty nor CANCELLED is asked.
ShowSearchWindow(raw) ==
    /\ frontend = "show_search_window"
    /\ event = "none"
    /\ LET stripped == Strip(DialogOutput(raw)) IN
         IF stripped # <<>> /\ stripped # CANCELLED
         THEN asked' = Append(asked, [by |-> frontend, question |-> stripped])
         ELSE UNCHANGED asked
    /\ event' = "show_search_window"
    /\ UNCHANGED <<ui, threads, after_queue, warnings, service_vars, main_vars>>

UINext ==
    \/ CreateUi
    \/ \E raw \in RawInputs : TypeQuestion(raw)
    \/ \E trigger \in {"button", "Return", "Command-s"} : OnSearch(trigger)
    \/ OnClearEvent
    \/ \E i \in 1..MaxSearches : RunSearch(i)
    \/ \E i \in 1..MaxSearches : RunSearchEnds(i)
    \/ MainLoopUpdate
    \/ \E raw \in RawInputs : InteractiveInput(raw)
    \/ \E raw \in RawInputs : QuestionArgument(raw)
    \/ RunDemo
    \/ \E raw \in RawInputs : ShowSearchWindow(raw)

UISpec == UIInit /\ [][UINext]_vars

\* A started thread keeps running and the Tk main loop keeps running what was
\* scheduled on it; nothing obliges a user to act.
UIFairSpec ==
    /\ UISpec
    /\ WF_vars(\E i \in 1..MaxSearches : RunSearch(i))
    /\ WF_vars(\E i \in 1..MaxSearches : RunSearchEnds(i))
    /\ WF_vars(MainLoopUpdate)

----------------------------------------------------------------------------
(* Claims *)

\* A request made through get_coding_answer has returned to its caller.
AnswerDone == pc = "done" /\ caller = "get_coding_answer"

\* get_llm has finished (it returned or raised).
LlmDone == llm.kind # "none"

CannedStrings == {UNABLE_TO_GENERATE, UNABLE_TO_CONNECT}

\* One of the four required configuration values is empty.
SomeSettingEmpty ==
    \/ settings.AZURE_OPENAI_API_KEY = ""
    \/ settings.AZURE_OPENAI_ENDPOINT = EmptyUrl
    \/ settings.AZURE_OPENAI_DEPLOYMENT_NAME = ""
    \/ settings.AZURE_OPENAI_API_VERSION = ""

\* C1: for every question and every outcome of client construction and of the
\* completion call, get_coding_answer returns a string that is neither None nor
\* empty.
C1_AnswerIsNonEmptyString ==
    AnswerDone =>
        /\ result.kind = "return"
        /\ result.value.type = "str"
        /\ Len(result.value.s) > 0

\* C1 witness: the empty question was asked, the completion call returned the
\* empty text, and the answer is the canned message.
C1_Witness ==
    /\ AnswerDone
    /\ question = <<>>
    /\ completion = Return(PyStr(<<>>))
    /\ result = Return(PyStr(UNABLE_TO_GENERATE))

\* The request failed: get_llm raised, the completion call raised, or the
\* response carried no text.
RequestFailed ==
    \/ completion.kind = "raise"
    \/ completion.kind = "return" /\ ~Truthy(completion.value)

\* C2: on any failure get_coding_answer does not raise; it returns one of the
\* two canned strings.
C2_FailureGivesCannedString ==
    (AnswerDone /\ RequestFailed) =>
        /\ result.kind = "return"
        /\ result.value.type = "str"
        /\ result.value.s \in CannedStrings

\* C2 witness: the client was built, invoke raised and the fallback request
\* raised too; the caller got a canned string.
C2_Witness ==
    /\ AnswerDone
    /\ llm.kind = "return"
    /\ calls.raw_create = 1
    /\ completion.kind = "raise"
    /\ result.kind = "return"
    /\ result.value.s \in CannedStrings

\* The completion call succeeded and returned a text.
CompletionText == completion.kind = "return" /\ completion.value.type = "str"

\* C3: a text longer than MAX_ANSWER_LENGTH is answered by a string of exactly
\* MAX_ANSWER_LENGTH characters that ends with "..." and starts with the first
\* MAX_ANSWER_LENGTH - 3 characters of the text.
C3_LongTextIsTruncated ==
    (AnswerDone /\ CompletionText /\ Len(completion.value.s) > MAX_ANSWER_LENGTH) =>
        /\ result.kind = "return"
        /\ result.value.type = "str"
        /\ Len(result.value.s) = MAX_ANSWER_LENGTH
        /\ SubSeq(result.value.s, MAX_ANSWER_LENGTH - 2, MAX_ANSWER_LENGTH) = ELLIPSIS
        /\ SubSeq(result.value.s, 1, MAX_ANSWER_LENGTH - 3)
             = SubSeq(completion.value.s, 1, MAX_ANSWER_LENGTH - 3)

\* C3 witness: a text one character over the budget was returned and the answer
\* differs from it.
C3_Witness ==
    /\ AnswerDone
    /\ CompletionText
    /\ Len(completion.value.s) = MAX_ANSWER_LENGTH + 1
    /\ result.kind = "return"
    /\ result.value # completion.value

\* C4 as stated: a text of any length from 0 to MAX_ANSWER_LENGTH is returned
\* unmodified.
C4_Original ==
    (AnswerDone /\ CompletionText /\ Len(completion.value.s) <= MAX_ANSWER_LENGTH) =>
        result = Return(completion.value)

\* C4 amended: a text of length 1 to MAX_ANSWER_LENGTH is returned unmodified;
\* the empty text is answered by "Unable to generate answer. Please try again.".
C4_ShortTextUnmodified ==
    (AnswerDone /\ CompletionText /\ Len(completion.value.s) <= MAX_ANSWER_LENGTH) =>
        IF Len(completion.value.s) >= 1
        THEN result = Return(completion.value)
        ELSE result = Return(PyStr(UNABLE_TO_GENERATE))

\* C4 witness: a text of exactly MAX_ANSWER_LENGTH characters came back as it was.
C4_Witness ==
    /\ AnswerDone
    /\ CompletionText
    /\ Len(completion.value.s) = MAX_ANSWER_LENGTH
    /\ result = Return(completion.value)

\* C5: with a required setting empty, get_llm raises ValueError at once: no
\* constructor is called, no outbound call is made, no attempt is started and
\* nothing is waited for.
C5_MissingConfigFailsFast ==
    SomeSettingEmpty =>
        /\ calls = NoCalls
        /\ attempts = <<>>
        /\ delays = <<>>
        /\ attempt_number = 0
        /\ pc \notin {"attempt", "wait"}
        /\ LlmDone => (llm.kind = "raise" /\ llm.exc.type = "ValueError")

\* C5 witness: only the API version is empty, and get_llm has raised.
C5_Witness ==
    /\ settings.AZURE_OPENAI_API_VERSION = ""
    /\ settings.AZURE_OPENAI_API_KEY # ""
    /\ settings.AZURE_OPENAI_ENDPOINT # EmptyUrl
    /\ settings.AZURE_OPENAI_DEPLOYMENT_NAME # ""
    /\ pc = "llm_done"
    /\ llm.kind = "raise"

\* Every attempt made so far got as far as the connectivity test call, which raised.
TestCallAlwaysRaised ==
    /\ attempts # <<>>
    /\ \A i \in 1..Len(attempts) : attempts[i].outcome = "test_error"

\* C6 as stated: when the connectivity test call raises on every attempt, client
\* construction fails after exactly 3 attempts, never fewer and never more.
C6_Original ==
    (LlmDone /\ llm.kind = "raise" /\ TestCallAlwaysRaised) =>
        Len(attempts) = STOP_AFTER_ATTEMPT

\* The test calls made so far are those of an endpoint that fails twice and
\* then answers.
FailsTwiceThenAnswers ==
    /\ attempts # <<>>
    /\ \A i \in 1..Len(attempts) :
          IF i <= 2 THEN attempts[i].outcome = "test_error"
          ELSE attempts[i].outcome \in {"ok", "chat_model_error"}

\* C7 as stated: against an endpoint whose test call fails twice and succeeds
\* the third time, get_llm returns a client instead of raising.
C7_Original ==
    (LlmDone /\ FailsTwiceThenAnswers) =>
        (llm.kind = "return" /\ llm.value.type # "NoneType")

\* C8 as stated: the delay before attempt 3 is strictly greater than the delay
\* before attempt 2.
C8_Original ==
    Len(delays) >= 2 => delays[2] > delays[1]

\* C8 amended: every delay between attempts is 4 seconds (2^(n-1) raised to the
\* minimum of 4, under the maximum of 10), so the delays never decrease and the
\* delay before attempt 3 equals the delay before attempt 2; at most two delays
\* are taken, one before each attempt after the first, and none without tenacity.
C8_DelaysAreFlat ==
    /\ \A i \in 1..Len(delays) : delays[i] = 4
    /\ Len(delays) <= 2
    /\ pc = "attempt" => Len(delays) = Len(attempts)
    /\ ~TENACITY_AVAILABLE => delays = <<>>

\* C8 witness: two attempts have failed and the third is about to start.
C8_Witness ==
    /\ pc = "attempt"
    /\ attempt_number = 3
    /\ Len(delays) = 2

\* C9: get_llm raises ValueError exactly when a required setting is empty, and
\* RuntimeError for every other failure, whatever was raised underneath.
C9_TwoFailureKinds ==
    (LlmDone /\ llm.kind = "raise") =>
        IF SomeSettingEmpty
        THEN llm.exc.type = "ValueError"
        ELSE llm.exc.type = "RuntimeError"

\* C9 witness: without tenacity the test call raised a ValueError, and get_llm
\* raised RuntimeError.
C9_Witness ==
    /\ ~TENACITY_AVAILABLE
    /\ attempts = <<[outcome |-> "test_error", exc |-> "ValueError"]>>
    /\ llm.kind = "raise"
    /\ llm.exc.type = "RuntimeError"

\* C10 as stated: when the completion call raises while a question is answered,
\* get_coding_answer returns "Error: Unable to connect to AI service.".
C10_Original ==
    (AnswerDone /\ llm.kind = "return" /\ completion.kind = "raise") =>
        result = Return(PyStr(UNABLE_TO_CONNECT))

\* Client construction failed after tenacity exhausted its three attempts.
RetriesExhausted ==
    /\ TENACITY_AVAILABLE
    /\ Len(attempts) = STOP_AFTER_ATTEMPT
    /\ llm.kind = "raise"

\* C11 as stated: when the endpoint could not be reached after the retries were
\* exhausted, get_coding_answer returns "Error: Unable to connect to AI service."
\* and nothing of the transport exception.
C11_Original ==
    (AnswerDone /\ RetriesExhausted) =>
        result = Return(PyStr(UNABLE_TO_CONNECT))

\* What get_llm raises, and what get_coding_answer then returns, when the
\* connectivity check failed after the retries.
ConnectivityFailure == GetLlmRaises(Exc("RetryError", "RetryError"))
ConnectivityFailureAnswer == GetCodingAnswerResult(GenerateCompletionCatch(ConnectivityFailure))

\* C12 as stated: a request made with a required setting missing has an outcome
\* different from that of a request whose connectivity check failed, at get_llm
\* and at get_coding_answer.
C12_Original ==
    /\ (LlmDone /\ SomeSettingEmpty) => llm # ConnectivityFailure
    /\ (AnswerDone /\ SomeSettingEmpty) => result # ConnectivityFailureAnswer

\* C12 amended: the two errors differ at get_llm only (the ValueError "Missing
\* required Azure OpenAI configuration values" against a RuntimeError); at
\* get_coding_answer both are answered by the same canned string.
C12_DistinctOnlyAtGetLlm ==
    /\ (LlmDone /\ SomeSettingEmpty) => llm = Raise(MissingConfigError)
    /\ (LlmDone /\ ~SomeSettingEmpty /\ llm.kind = "raise") =>
          (llm.exc.type = "RuntimeError" /\ llm # Raise(MissingConfigError))
    /\ (AnswerDone /\ llm.kind = "raise") => result = Return(PyStr(UNABLE_TO_GENERATE))

\* C12 witness: a question was asked with the deployment name missing; get_llm
\* raised ValueError and the caller got the canned string.
C12_Witness ==
    /\ AnswerDone
    /\ settings.AZURE_OPENAI_DEPLOYMENT_NAME = ""
    /\ llm.kind = "raise"
    /\ llm.exc.type = "ValueError"
    /\ result = Return(PyStr(UNABLE_TO_GENERATE))

\* C13: get_coding_answer does not short-circuit on the empty question: get_llm
\* is run, a client that was built is sent the request through invoke, and a
\* text of 1 to MAX_ANSWER_LENGTH characters that comes back (such as "N/A") is
\* the result.
C13_EmptyQuestionIsSent ==
    (AnswerDone /\ question = <<>>) =>
        /\ LlmDone
        /\ llm.kind = "return" => (calls.invoke = 1 /\ Len(sent) >= 1)
        /\ (CompletionText /\ Len(completion.value.s) \in 1..MAX_ANSWER_LENGTH) =>
              result = Return(completion.value)

\* C13 witness: the empty question was asked, the request answered "N/A" and
\* "N/A" is the result.
C13_Witness ==
    /\ AnswerDone
    /\ question = <<>>
    /\ calls.invoke = 1
    /\ completion = Return(PyStr(NotApplicable))
    /\ result = Return(PyStr(NotApplicable))

\* The chat-completion calls this request has sent out: connectivity test calls,
\* the invoke call and the raw-client call.
OutboundCalls == calls.test + calls.invoke + calls.raw_create

\* C14 as stated: a call of get_coding_answer causes exactly one outbound
\* chat-completion request.
C14_Original ==
    AnswerDone => OutboundCalls = 1

\* C14 amended: a call of get_coding_answer sends the question at most twice,
\* once through invoke and, only when invoke raised, once more through the raw
\* client; before that it makes one connectivity test call per construction
\* attempt, 1 to 3 of them; it sends the question exactly when the client was
\* built, and makes no outbound call at all when a required setting is empty.
C14_CallsPerQuestion ==
    AnswerDone =>
        /\ calls.invoke <= 1
        /\ calls.raw_create <= calls.invoke
        /\ Len(sent) = calls.invoke + calls.raw_create
        /\ calls.test <= Len(attempts)
        /\ Len(attempts) <= STOP_AFTER_ATTEMPT
        /\ llm.kind = "return" => (calls.test >= 1 /\ calls.invoke = 1)
        /\ llm.kind = "raise" => (calls.invoke = 0 /\ calls.raw_create = 0)
        /\ SomeSettingEmpty => OutboundCalls = 0

\* C14 witness: one question caused five outbound calls: three test calls (two
\* failed), the invoke call, which raised, and the raw-client call.
C14_Witness ==
    /\ AnswerDone
    /\ calls.test = 3
    /\ calls.invoke = 1
    /\ calls.raw_create = 1
    /\ llm.kind = "return"

\* C15 as stated: once a request got a client, later requests run no
\* construction and no connectivity check; once construction failed, every later
\* request fails too.
C15_Original ==
    /\ prev_llm.kind = "return" => (calls.client = 0 /\ calls.test = 0)
    /\ (prev_llm.kind = "raise" /\ LlmDone) => llm.kind = "raise"

\* C15 amended: the service keeps no client between requests.  Every request
\* with complete settings constructs a client and runs the connectivity test
\* again, whatever the previous request's outcome was, and a client is returned
\* only after a test call of the same request answered; so a failed
\* construction is not terminal.  Only the failure on a missing setting repeats
\* in every later request.
C15_NoClientState ==
    /\ (LlmDone /\ ~SomeSettingEmpty) => calls.client >= 1
    /\ (LlmDone /\ llm.kind = "return") => (calls.test >= 1 /\ calls.chat_model = 1)
    /\ (LlmDone /\ prev_llm = Raise(MissingConfigError)) => llm = Raise(MissingConfigError)
    /\ (LlmDone /\ prev_llm.kind # "none" /\ prev_llm # Raise(MissingConfigError)) =>
          llm # Raise(MissingConfigError)

\* C15 witness: the previous request failed to construct a client, and this one
\* constructed and tested one.
C15_Witness ==
    /\ prev_llm.kind = "raise"
    /\ llm.kind = "return"
    /\ calls.client >= 1
    /\ calls.test >= 1

\* C16 as stated: every chat-completion request that carries the question is
\* issued with the configured MAX_TOKENS and TEMPERATURE, through invoke as well
\* as through the raw client.
C16_Original ==
    \A i \in 1..Len(sent) :
        /\ sent[i].max_tokens = PyInt(settings.MAX_TOKENS)
        /\ sent[i].temperature = PyFloat(settings.TEMPERATURE)

\* The configured endpoint has more than scheme and host: a trailing slash or a
\* deeper path.
EndpointHasPath == settings.AZURE_OPENAI_ENDPOINT.path # ""

\* C17 as stated: when the configured endpoint has a deeper path, every client
\* is constructed with the base URL get_llm extracted, not with the configured
\* value.
C17_Original ==
    (EndpointHasPath /\ azure_endpoint # EmptyUrl) =>
        /\ azure_endpoint = endpoint
        /\ azure_endpoint # settings.AZURE_OPENAI_ENDPOINT

\* C18 as stated: the process environment is the same after a call of
\* get_coding_answer as before it, for every outcome of the call.
C18_Original ==
    AnswerDone => os_environ = environ_before

\* C18 amended: a call never changes the settings, and it changes the process
\* environment in one way only: when all required settings are present and
\* OPENAI_API_KEY holds the Azure key, get_llm removes OPENAI_API_KEY.  Any other
\* value of the variable is left alone, and so is the environment of a call that
\* fails on a missing setting.
C18_OnlyAzureKeyRemoved ==
    /\ [][settings' = settings]_vars
    /\ [](os_environ # environ_before =>
            /\ ~SomeSettingEmpty
            /\ environ_before.OPENAI_API_KEY = settings.AZURE_OPENAI_API_KEY
            /\ os_environ.OPENAI_API_KEY = UNSET)
    /\ []((AnswerDone /\ ~SomeSettingEmpty) =>
            os_environ.OPENAI_API_KEY # settings.AZURE_OPENAI_API_KEY)

\* C18 witness: OPENAI_API_KEY held the Azure key when the question was asked
\* and is unset when the answer is returned.
C18_Witness ==
    /\ AnswerDone
    /\ environ_before.OPENAI_API_KEY = "test_key"
    /\ os_environ.OPENAI_API_KEY = UNSET

\* The request failed on a timeout: the raw chat-completion call timed out, or
\* client construction failed with its last attempt timing out.
TimedOut ==
    \/ completion.kind = "raise" /\ completion.exc.type = "APITimeoutError"
    \/ /\ llm.kind = "raise"
       /\ attempts # <<>>
       /\ attempts[Len(attempts)].exc = "APITimeoutError"

\* C19: every call of get_coding_answer eventually returns: client construction
\* is attempted at most three times, the question is sent through the raw
\* client at most once, and a request that failed on a timeout returns one of
\* the canned strings.
C19_EveryCallReturns ==
    /\ (caller = "get_coding_answer" /\ pc = "get_llm") ~> AnswerDone
    /\ [](Len(attempts) <= STOP_AFTER_ATTEMPT /\ calls.raw_create <= 1)
    /\ []((AnswerDone /\ TimedOut) =>
            (result.kind = "return" /\ result.value.s \in CannedStrings))

\* C19 witness: three construction attempts timed out and the call returned a
\* canned string.
C19_Witness ==
    /\ AnswerDone
    /\ Len(attempts) = 3
    /\ \A i \in 1..3 : attempts[i].exc = "APITimeoutError"
    /\ result.kind = "return"
    /\ result.value.s \in CannedStrings

\* The three variables check_environment() looks at are set.
EnvironmentSet ==
    /\ settings.AZURE_OPENAI_API_KEY # ""
    /\ settings.AZURE_OPENAI_ENDPOINT # EmptyUrl
    /\ settings.AZURE_OPENAI_DEPLOYMENT_NAME # ""

\* Both start-up checks passed: the environment is set and the get_llm call of
\* the connectivity test returned a client.
StartupChecksPassed == EnvironmentSet /\ startup_llm.kind = "return"

\* main() has finished without having started a front-end.
ExitedAtStartup == main_pc = "exited" /\ frontend = "none"

\* C20: in main (main.py and main_cli.py) no front-end is started and no
\* question is sent unless the environment check passed and the connectivity
\* test succeeded first; the connectivity test is not run after a failed
\* environment check; and when either check failed the process exits with
\* status 1 (with both passed it exits at start-up only under --test, with 0).
C20_FailFastAtStartup ==
    /\ frontend # "none" => StartupChecksPassed
    /\ (main_pc # "none" /\ caller = "get_coding_answer") => StartupChecksPassed
    /\ (main_pc # "none" /\ ~EnvironmentSet) => (pc = "idle" /\ main_pc # "frontend")
    /\ (ExitedAtStartup /\ ~StartupChecksPassed) => exit_status = Exit(1)
    /\ (ExitedAtStartup /\ StartupChecksPassed) => (args.test /\ exit_status = Exit(0))

\* C20 witness: the API version is empty, so the environment check passed but
\* get_llm raised in the connectivity test, and main_cli.py exited with 1 without
\* a front-end.
C20_Witness ==
    /\ program = "main_cli.py"
    /\ ExitedAtStartup
    /\ EnvironmentSet
    /\ startup_llm.kind = "raise"
    /\ exit_status = Exit(1)

\* generate_completion has ended.
CompletionDone == response.kind # "none"

\* C22: when invoke raises, generate_completion builds one raw client and sends
\* the question through it exactly once (not at all only if building the raw
\* client raised), and what that request returns is what generate_completion
\* returns; when invoke succeeds, its content is returned and no raw client is
\* built and no raw request is sent.
C22_FallbackOnInvokeError ==
    (CompletionDone /\ calls.invoke = 1) =>
        IF calls.raw_client = 1
        THEN /\ calls.raw_client = 1
             /\ calls.raw_create <= 1
             /\ completion.kind = "return" =>
                   (calls.raw_create = 1 /\ response = completion)
             /\ Len(sent) = 1 + calls.raw_create
        ELSE /\ calls.raw_client = 0
             /\ calls.raw_create = 0
             /\ CompletionText
             /\ response = completion
             /\ Len(sent) = 1

\* C22 witness: invoke raised, the fallback request answered "N/A" and
\* generate_completion returned "N/A".
C22_Witness ==
    /\ CompletionDone
    /\ calls.invoke = 1
    /\ calls.raw_client = 1
    /\ calls.raw_create = 1
    /\ response = Return(PyStr(NotApplicable))

\* C23: generate_completion never raises.  When get_llm raised, it returns
\* None and has sent no request carrying the question; when invoke and then the
\* fallback failed, it returns None.
C23_CompletionNeverRaises ==
    CompletionDone =>
        /\ response.kind = "return"
        /\ llm.kind = "raise" =>
              (response = Return(PyNone) /\ sent = <<>> /\ calls.invoke = 0
               /\ calls.raw_create = 0)
        /\ completion.kind = "raise" => response = Return(PyNone)

\* C23 witness: invoke raised and the fallback request raised; generate_completion
\* returned None.
C23_Witness ==
    /\ CompletionDone
    /\ llm.kind = "return"
    /\ calls.invoke = 1
    /\ calls.raw_create = 1
    /\ completion.kind = "raise"
    /\ response = Return(PyNone)

----------------------------------------------------------------------------
(* Claims about the front-ends, under UISpec *)

\* C21 as stated: no front-end passes get_coding_answer a question that is empty
\* after stripping whitespace.
C21_Original ==
    \A i \in DOMAIN asked : Strip(asked[i].question) # <<>>

\* The window is a TouchBarUI after create_ui.
TouchBarUICreated == ui.created /\ ui.class = "TouchBarUI"

\* C24: when _on_search of TouchBarUI runs with no search in flight, then for a
\* question that is empty after strip() it shows one warning and changes neither
\* is_searching (false), nor the button, nor any other field of the window, and
\* creates no thread; for any other question it runs _start_search once, with
\* the stripped question: one thread for that question is added and no warning
\* is shown.
C24_OnSearch ==
    [][(event' = "_on_search" /\ TouchBarUICreated /\ ~ui.is_searching) =>
          IF Strip(ui.search_entry) = <<>>
          THEN /\ warnings' = warnings + 1
               /\ ui' = ui
               /\ ~ui'.is_searching
               /\ threads' = threads
          ELSE /\ warnings' = warnings
               /\ ui'.is_searching
               /\ threads' = Append(threads, [question |-> Strip(ui.search_entry),
                                              stage |-> "running"])]_vars

\* C24 witness: _on_search refused an empty question with a warning, and later
\* started a search for "x" from the entry " x ".
C24_Witness ==
    /\ TouchBarUICreated
    /\ event = "_on_search"
    /\ warnings = 1
    /\ ui.search_entry = <<" ", "x", " ">>
    /\ ui.is_searching
    /\ threads = <<[question |-> <<"x">>, stage |-> "running"]>>

\* C25: a step of TouchBarUI that starts a search sets is_searching, disables the
\* search button, shows "Searching..." and "Generating answer...", and adds
\* exactly one thread, which runs the question.
C25_StartSearch ==
    [][(event' = "_on_search" /\ TouchBarUICreated /\ threads' # threads) =>
          /\ ui'.is_searching
          /\ ui'.search_button = "disabled"
          /\ ui'.status_label = "Searching..."
          /\ ui'.answer_label = GENERATING_TEXT
          /\ ui'.search_entry = ui.search_entry
          /\ Len(threads') = Len(threads) + 1
          /\ SubSeq(threads', 1, Len(threads)) = threads
          /\ threads'[Len(threads')].stage = "running"
          /\ after_queue' = after_queue]_vars

\* C25 witness: the first search has just been started.
C25_Witness ==
    /\ TouchBarUICreated
    /\ event = "_on_search"
    /\ ui.is_searching
    /\ ui.search_button = "disabled"
    /\ ui.status_label = "Searching..."
    /\ ui.answer_label = GENERATING_TEXT
    /\ warnings = 0
    /\ Len(threads) = 1
    /\ threads[1].stage = "running"

\* C26: _update_answer(answer) of TouchBarUI shows the answer, sets the status
\* to "Ready", enables the search button and resets is_searching; it touches
\* neither the entry nor the threads.  A search can be started after it.
C26_UpdateAnswer ==
    [][(event' = "_update_answer" /\ TouchBarUICreated) =>
          /\ ui'.answer_label = Head(after_queue)
          /\ ui'.status_label = "Ready"
          /\ ui'.search_button = "normal"
          /\ ~ui'.is_searching
          /\ ui'.search_entry = ui.search_entry
          /\ threads' = threads
          /\ "button" \in Triggers(ui')]_vars

\* C26 witness: after the answer "N/A" of a first search was shown, a second
\* search was started.
C26_Witness ==
    /\ TouchBarUICreated
    /\ Len(threads) = 2
    /\ threads[1].stage = "ended"
    /\ threads[2].stage = "running"
    /\ Len(asked) = 1
    /\ after_queue = <<>>
    /\ ui.is_searching
    /\ event = "_on_search"

\* C27: _on_clear of TouchBarUI empties the entry, shows the prompt text and
\* "Ready", and changes neither is_searching, nor the button's state, nor the
\* threads, nor the scheduled updates, with or without a search in flight.
C27_OnClear ==
    [][(event' = "_on_clear" /\ TouchBarUICreated) =>
          /\ ui'.search_entry = <<>>
          /\ ui'.answer_label = PROMPT_TEXT
          /\ ui'.status_label = "Ready"
          /\ ui'.is_searching = ui.is_searching
          /\ ui'.search_button = ui.search_button
          /\ threads' = threads
          /\ after_queue' = after_queue
          /\ asked' = asked
          /\ warnings' = warnings]_vars

\* C27 witness: _on_clear ran while a search was in flight.
C27_Witness ==
    /\ TouchBarUICreated
    /\ event = "_on_clear"
    /\ ui.is_searching
    /\ ui.search_button = "disabled"
    /\ ui.search_entry = <<>>
    /\ ui.answer_label = PROMPT_TEXT
    /\ ui.status_label = "Ready"
    /\ Len(threads) = 1
    /\ threads[1].stage = "running"

\* The threads that have not ended, and those that have not yet scheduled their
\* _update_answer.
LiveThreads == {i \in DOMAIN threads : threads[i].stage # "ended"}
SearchingThreads == {i \in DOMAIN threads : threads[i].stage = "running"}

\* C28 as stated: the number of running search threads never exceeds one.
C28_Original == Cardinality(LiveThreads) <= 1

\* C28 amended: in TouchBarUI and in TouchBarSearchWindow at most one thread is
\* searching (has not yet scheduled its _update_answer), at most one update is
\* scheduled, and while either exists no other does and is_searching is true;
\* a trigger that arrives while is_searching is true starts no thread.
C28_OneSearchInFlight ==
    /\ [](ui.created =>
            /\ Cardinality(SearchingThreads) + Len(after_queue) <= 1
            /\ ui.is_searching <=> (Cardinality(SearchingThreads) + Len(after_queue) = 1))
    /\ [][(event' = "_on_search" /\ ui.created /\ ui.is_searching) =>
            (threads' = threads /\ ui' = ui /\ after_queue' = after_queue)]_vars

\* C28 witness: a trigger arrived while a second search was in flight and the
\* thread of the first had not ended: two threads are alive, one is searching.
C28_Witness ==
    /\ ui.created
    /\ event = "_on_search"
    /\ Len(threads) = 2
    /\ threads[1].stage = "closing"
    /\ threads[2].stage = "running"
    /\ ui.is_searching
    /\ Cardinality(LiveThreads) = 2

\* C29: every search of TouchBarUI ends: whenever is_searching is true it becomes
\* false again.  The try block of a search thread schedules exactly one
\* _update_answer, whether the callback answered or an exception was raised,
\* nothing else schedules one, and a thread that has scheduled its update never
\* searches again.
C29_SearchEnds ==
    /\ (ui.created /\ ui.is_searching) ~> (ui.created /\ ~ui.is_searching)
    /\ [][/\ event' = "_run_search" => Len(after_queue') = Len(after_queue) + 1
          /\ (event' # "_run_search" /\ event' # "_update_answer") => after_queue' = after_queue
          /\ event' = "_update_answer" => after_queue' = Tail(after_queue)
          /\ \A i \in DOMAIN threads :
                threads[i].stage # "running" => threads'[i].stage # "running"]_vars

\* C29 witness: a search whose thread raised has ended with "Error: boom" shown
\* and is_searching false.
C29_Witness ==
    /\ TouchBarUICreated
    /\ event = "_update_answer"
    /\ Len(threads) = 1
    /\ threads[1].stage # "running"
    /\ asked = <<>>
    /\ ui.answer_label = ERROR_PREFIX \o <<"b", "o", "o", "m">>
    /\ ~ui.is_searching
    /\ after_queue = <<>>

\* C30: in every state of a TouchBarUI after create_ui the search button is
\* disabled if and only if is_searching is true.
C30_ButtonFollowsFlag ==
    TouchBarUICreated => (ui.search_button = "disabled" <=> ui.is_searching)

\* C30 witness: a search has been started and has ended; the button is enabled
\* again and is_searching is false.
C30_Witness ==
    /\ TouchBarUICreated
    /\ event = "_update_answer"
    /\ Len(asked) = 1
    /\ ui.answer_label = NotApplicable
    /\ ui.search_button = "normal"
    /\ ~ui.is_searching

====
